---- MODULE Spec2Model ----
(***************************************************************************)
(* Model of app.py: a Flask application with three routes.                 *)
(*   GET /          home()      render_template('index.html')              *)
(*   GET /points    points()    with open(features.json, 'r'): json.load   *)
(*   GET /polygons  polygons()  with open(features_poly.json,'r'): json.load*)
(*                                                                         *)
(* File contents are sequences of lexical tokens.  json.load, Flask's      *)
(* jsonify and Flask's conversion of a view's return value into a response *)
(* are modelled by what they do on those token sequences.  The files on    *)
(* disk belong to the environment, which may replace or delete them at any *)
(* time (atomically: an open handle keeps the content it was opened on).   *)
(***************************************************************************)
EXTENDS Integers, Sequences, FiniteSets, TLC

\* Number of requests served in one run (request ids are arrival order).
MaxRequests == 2

(***************************************************************************)
(* Lexical tokens of file contents                                         *)
(***************************************************************************)
WS == " "
StringToks == {"\"a\"", "\"b\""}
NumberToks == {"1", "2"}
\* A number beyond the range of a double: Python's float() makes it inf.
HugeToks == {"1e999"}

\* The characters between the quotes of a string literal.
Unquote(t) == IF t = "\"a\"" THEN "a" ELSE "b"
Quote(s) == IF s = "a" THEN "\"a\"" ELSE "\"b\""
\* sort_keys=True: the order in which jsonify writes the keys of a dict.
KeyOrder == <<"a", "b">>

(***************************************************************************)
(* Python values produced by json.load                                     *)
(***************************************************************************)
PyDict(f) == [kind |-> "dict", items |-> f]
PyList(s) == [kind |-> "list", elems |-> s]
\* A str is the text it holds: a sequence of tokens.
PyStr(s) == [kind |-> "str", chars |-> s]
PyInt(t) == [kind |-> "int", digits |-> t]
PyBool(t) == [kind |-> "bool", lit |-> t]
PyFloat(t) == [kind |-> "float", repr |-> t]
PyNone == [kind |-> "NoneType"]

(***************************************************************************)
(* json.load: the decoder of Python's json module.  asPython is TRUE for   *)
(* json.load as app.py calls it: the default parse_constant accepts NaN,   *)
(* which RFC 8259 JSON does not have, and float() turns a number beyond    *)
(* the range of a double into inf.  With asPython FALSE the same grammar   *)
(* is the strict JSON a client of the service parses, numbers as written.  *)
(***************************************************************************)
RECURSIVE SkipWs(_, _)
SkipWs(text, i) ==
    IF i <= Len(text) /\ text[i] = WS THEN SkipWs(text, i + 1) ELSE i

Tok(text, i) == IF i >= 1 /\ i <= Len(text) THEN text[i] ELSE "EOF"

DecodeFail == [ok |-> FALSE]
DecodeOk(v, e) == [ok |-> TRUE, val |-> v, end |-> e]

RECURSIVE ScanOnce(_, _, _)
RECURSIVE ObjectMembers(_, _, _, _)
RECURSIVE ArrayElements(_, _, _, _)

\* JSONObject's loop: i is the position of a key; later duplicates win.
ObjectMembers(text, i, acc, asPython) ==
    LET key == Unquote(text[i])
        c == SkipWs(text, i + 1)
    IN  IF Tok(text, c) # ":" THEN DecodeFail
        ELSE LET v == ScanOnce(text, SkipWs(text, c + 1), asPython)
             IN  IF ~v.ok THEN DecodeFail
                 ELSE LET e == SkipWs(text, v.end)
                          acc2 == [k \in (DOMAIN acc) \cup {key} |->
                                      IF k = key THEN v.val ELSE acc[k]]
                      IN  IF Tok(text, e) = "}" THEN DecodeOk(PyDict(acc2), e + 1)
                          ELSE IF Tok(text, e) # "," THEN DecodeFail
                          ELSE LET k2 == SkipWs(text, e + 1)
                               IN  IF Tok(text, k2) \in StringToks
                                   THEN ObjectMembers(text, k2, acc2, asPython)
                                   ELSE DecodeFail

\* JSONObject: i is the position after the opening brace.
JSONObject(text, i, asPython) ==
    LET j == SkipWs(text, i)
    IN  IF Tok(text, j) = "}" THEN DecodeOk(PyDict(<<>>), j + 1)
        ELSE IF Tok(text, j) \notin StringToks THEN DecodeFail
        ELSE ObjectMembers(text, j, <<>>, asPython)

\* JSONArray's loop: i is the position of an element.
ArrayElements(text, i, acc, asPython) ==
    LET v == ScanOnce(text, i, asPython)
    IN  IF ~v.ok THEN DecodeFail
        ELSE LET e == SkipWs(text, v.end)
                 acc2 == Append(acc, v.val)
             IN  IF Tok(text, e) = "]" THEN DecodeOk(PyList(acc2), e + 1)
                 ELSE IF Tok(text, e) # "," THEN DecodeFail
                 ELSE ArrayElements(text, SkipWs(text, e + 1), acc2, asPython)

\* JSONArray: i is the position after the opening bracket.
JSONArray(text, i, asPython) ==
    LET j == SkipWs(text, i)
    IN  IF Tok(text, j) = "]" THEN DecodeOk(PyList(<<>>), j + 1)
        ELSE ArrayElements(text, j, <<>>, asPython)

\* scan_once: one JSON value starting at position i.
ScanOnce(text, i, asPython) ==
    LET t == Tok(text, i)
    IN  IF t \in StringToks THEN DecodeOk(PyStr(<<Unquote(t)>>), i + 1)
        ELSE IF t = "{" THEN JSONObject(text, i + 1, asPython)
        ELSE IF t = "[" THEN JSONArray(text, i + 1, asPython)
        ELSE IF t = "null" THEN DecodeOk(PyNone, i + 1)
        ELSE IF t \in {"true", "false"} THEN DecodeOk(PyBool(t), i + 1)
        ELSE IF t \in NumberToks THEN DecodeOk(PyInt(t), i + 1)
        ELSE IF t \in HugeToks
             THEN DecodeOk(PyFloat(IF asPython THEN "inf" ELSE t), i + 1)
        ELSE IF t = "NaN" /\ asPython THEN DecodeOk(PyFloat("nan"), i + 1)
        ELSE DecodeFail

\* JSONDecoder.decode: leading whitespace, one value, trailing whitespace,
\* and nothing else ("Extra data" otherwise).
Decode(text, asPython) ==
    LET v == ScanOnce(text, SkipWs(text, 1), asPython)
    IN  IF ~v.ok THEN DecodeFail
        ELSE IF SkipWs(text, v.end) # Len(text) + 1 THEN DecodeFail
        ELSE v

(***************************************************************************)
(* json.dumps as Flask's jsonify calls it: sort_keys=True, allow_nan left  *)
(* at its default, and (in debug mode) whitespace after the separators.    *)
(***************************************************************************)
ItemSep(pretty) == IF pretty THEN <<",", WS>> ELSE <<",">>
KeySep(pretty) == IF pretty THEN <<":", WS>> ELSE <<":">>

RECURSIVE Dumps(_, _)
RECURSIVE DumpItems(_, _, _)
RECURSIVE DumpElems(_, _)

DumpItems(f, keys, pretty) ==
    IF keys = <<>> THEN <<>>
    ELSE <<Quote(Head(keys))>> \o KeySep(pretty) \o Dumps(f[Head(keys)], pretty)
         \o (IF Tail(keys) = <<>> THEN <<>>
             ELSE ItemSep(pretty) \o DumpItems(f, Tail(keys), pretty))

DumpElems(elems, pretty) ==
    IF elems = <<>> THEN <<>>
    ELSE Dumps(Head(elems), pretty)
         \o (IF Tail(elems) = <<>> THEN <<>>
             ELSE ItemSep(pretty) \o DumpElems(Tail(elems), pretty))

Dumps(v, pretty) ==
    IF v.kind = "dict"
    THEN <<"{">>
         \o DumpItems(v.items, SelectSeq(KeyOrder, LAMBDA k : k \in DOMAIN v.items), pretty)
         \o <<"}">>
    ELSE IF v.kind = "list" THEN <<"[">> \o DumpElems(v.elems, pretty) \o <<"]">>
    ELSE IF v.kind = "str" THEN <<Quote(v.chars[1])>>
    ELSE IF v.kind = "int" THEN <<v.digits>>
    ELSE IF v.kind = "bool" THEN <<v.lit>>
    ELSE IF v.kind = "float"
         THEN IF v.repr = "nan" THEN <<"NaN">>
              ELSE IF v.repr = "inf" THEN <<"Infinity">> ELSE <<v.repr>>
    ELSE <<"null">>

(***************************************************************************)
(* The files the application reads, and what they may hold                 *)
(***************************************************************************)
PointsPath == "static/data/features.json"
\* Slip: the path of points() pasted into polygons().
PolygonsPathPasted == "static/data/features.json"
PolygonsPath == "static/data/features_poly.json"
TemplatePath == "templates/index.html"
Paths ==
    {"static/data/features.json", "static/data/features_poly.json",
     "templates/index.html"}
DataPaths == {"static/data/features.json", "static/data/features_poly.json"}

\* The access mode the handlers pass to open().
\* Slip: 'w' for 'r'.
PointsModeWrite == "w"
PointsMode == "r"
PolygonsMode == "r"

Missing == [st |-> "missing"]          \* no such file
NoPerm == [st |-> "noperm"]            \* exists, open() is refused
Undecodable == [st |-> "binary"]       \* opens, read() raises UnicodeDecodeError
File(text) == [st |-> "file", text |-> text]

ObjA == <<"{", "\"a\"", ":", "1", "}">>
ObjB == <<"{", "\"b\"", ":", "2", "}">>
ObjAPadded == <<WS, "{", WS, "\"a\"", WS, ":", WS, "1", WS, "}", WS>>
ObjNested ==
    <<"{", "\"b\"", ":", "[", "1", ",", "null", "]", ",",
      "\"a\"", ":", "{", "\"a\"", ":", "true", "}", "}">>
ObjDupKey == <<"{", "\"a\"", ":", "1", ",", "\"a\"", ":", "2", "}">>
ObjEmpty == <<"{", "}">>
ArrText == <<"[", "1", ",", "\"a\"", "]">>
StrText == <<"\"a\"">>
NumText == <<"1">>
BoolText == <<"true">>
NullText == <<"null">>
EmptyText == <<>>
Truncated == <<"{", "\"a\"", ":">>
TrailingComma == <<"[", "1", ",", "]">>
ExtraData == <<"{", "\"a\"", ":", "1", "}", "}">>
Garbage == <<"<html>">>
ObjNaN == <<"{", "\"a\"", ":", "NaN", "}">>
ObjHuge == <<"{", "\"a\"", ":", "1e999", "}">>

\* The template shipped with the application: static, non-empty markup.
IndexHtml == <<"<!DOCTYPE html>", "<html>", "</html>">>

\* Contents the environment installs while the server runs.
LiveTexts == {ObjA, ObjB}
\* Every content a data file is deployed with.
AllTexts ==
    {ObjA, ObjB, ObjAPadded, ObjNested, ObjDupKey, ObjEmpty, ArrText, StrText,
     NumText, BoolText, NullText, EmptyText, Truncated, TrailingComma,
     ExtraData, Garbage, ObjNaN, ObjHuge}

LiveStates == {Missing} \cup {File(t) : t \in LiveTexts}
CommonStates == {Missing, File(ObjB), File(Truncated)}
AllStates == {Missing, NoPerm, Undecodable} \cup {File(t) : t \in AllTexts}
TemplateStates == {Missing, File(IndexHtml)}

(***************************************************************************)
(* Python: open(), json.load(), the with statement                         *)
(***************************************************************************)
Pending == [t |-> "pending"]
Raised(e) == [t |-> "raise", exc |-> e]
Returned(v) == [t |-> "return", rv |-> v]

NoHandle == [h |-> "none"]
Closed == [h |-> "closed"]
OpenHandle(fs, mode) == [h |-> "open", file |-> fs, mode |-> mode]

\* open(path, mode) on disk d: the disk afterwards, the handle, the outcome.
BuiltinOpen(d, path, mode) ==
    IF d[path] = NoPerm
    THEN [disk |-> d, handle |-> NoHandle, outcome |-> Raised("PermissionError")]
    ELSE IF mode = "r"
    THEN IF d[path] = Missing
         THEN [disk |-> d, handle |-> NoHandle,
               outcome |-> Raised("FileNotFoundError")]
         ELSE [disk |-> d, handle |-> OpenHandle(d[path], mode), outcome |-> Pending]
    ELSE \* 'w' creates or truncates the file
         [disk |-> [d EXCEPT ![path] = File(EmptyText)],
          handle |-> OpenHandle(File(EmptyText), mode), outcome |-> Pending]

\* Slip: return fp.read() in place of json.load(fp).
JsonLoadRaw(handle) ==
    IF handle.file = Undecodable THEN Raised("UnicodeDecodeError")
    ELSE Returned(PyStr(handle.file.text))

\* json.load(fp): fp.read(), then the decoder.
JsonLoad(handle) ==
    IF handle.mode # "r" THEN Raised("UnsupportedOperation")
    ELSE IF handle.file = Undecodable THEN Raised("UnicodeDecodeError")
    ELSE LET v == Decode(handle.file.text, TRUE)
         IN  IF v.ok THEN Returned(v.val) ELSE Raised("JSONDecodeError")

\* Slip: open() and close() around json.load with no with block, so that an
\* exception skips the close.
WithExitOnSuccess(handle, outcome) ==
    IF outcome.t = "raise" THEN handle ELSE Closed

\* Leaving the with block: the handle is closed whatever the outcome, and
\* the outcome (a return value or an exception) is passed on.
WithExit(handle, outcome) == Closed

(***************************************************************************)
(* Flask: debug mode, the template cache, responses                        *)
(***************************************************************************)
\* Slip: app.run() without debug.
DebugOff == FALSE
\* app.run(debug=True)
Debug == TRUE
\* TEMPLATES_AUTO_RELOAD is unset, so it follows the debug flag.
TemplatesAutoReload == Debug

NoTemplate == [st |-> "none"]

\* Jinja's get_template: a cached template is used when auto reload is off
\* or the file is unchanged; otherwise the file is loaded again.
GetTemplate(d, cache) ==
    IF cache # NoTemplate /\ (~TemplatesAutoReload \/ d[TemplatePath] = cache)
    THEN [cache |-> cache, outcome |-> Returned(PyStr(cache.text))]
    ELSE IF d[TemplatePath] = Missing
    THEN [cache |-> cache, outcome |-> Raised("TemplateNotFound")]
    ELSE [cache |-> d[TemplatePath], outcome |-> Returned(PyStr(d[TemplatePath].text))]

\* Slip: home() loads the points file to pass it to the template.
HomeRenderWithPoints(d, cache) ==
    IF d["static/data/features.json"] \in {Missing, NoPerm}
    THEN [cache |-> cache, outcome |-> Raised("FileNotFoundError")]
    ELSE GetTemplate(d, cache)

\* home(): render_template('index.html'), with no context.
HomeRender(d, cache) == GetTemplate(d, cache)

NoResp == [status |-> 0]
Response(status, ctype, body) == [status |-> status, ctype |-> ctype, body |-> body]
ErrorPage == <<"<title>500 Internal Server Error</title>">>

\* An exception that leaves a view: the framework's 500 page.
HandleException(exc) == Response(500, "text/html", ErrorPage)

\* The response body jsonify writes for a value.
Jsonify(v) == Response(200, "application/json", Dumps(v, Debug) \o <<WS>>)

\* make_response: what Flask makes of a view's return value.  A list is
\* turned into JSON by Flask 2.2 and later (listsAreJson) and is a TypeError
\* before; the application pins no version.
MakeResponse(rv, listsAreJson) ==
    IF rv.kind = "dict" THEN Jsonify(rv)
    ELSE IF rv.kind = "list" /\ listsAreJson THEN Jsonify(rv)
    ELSE IF rv.kind = "str" THEN Response(200, "text/html", rv.chars)
    ELSE HandleException("TypeError")

Finalize(outcome, listsAreJson) ==
    IF outcome.t = "raise" THEN HandleException(outcome.exc)
    ELSE MakeResponse(outcome.rv, listsAreJson)

(***************************************************************************)
(* State                                                                   *)
(***************************************************************************)
VARIABLES
    disk,        \* path -> state of the file
    reqs,        \* request id -> the request's progress through its view
    jinjaCache   \* the template the Jinja environment holds

vars == <<disk, reqs, jinjaCache>>

Ids == 1 .. MaxRequests
Routes == {"/", "/points", "/polygons"}
\* @app.route: the view each URL is bound to.
UrlMap == [u \in Routes |->
             IF u = "/" THEN "home" ELSE IF u = "/points" THEN "points" ELSE "polygons"]
\* The file each URL is documented to serve.
RouteFile(u) ==
    IF u = "/" THEN "templates/index.html"
    ELSE IF u = "/points" THEN "static/data/features.json"
    ELSE "static/data/features_poly.json"

\* A request: its URL and view, its place in the view (pc), the view's file
\* handle, the view's outcome, the response, the number of open/render
\* calls made (tries), and two records of history: the state its route's
\* file was in when the view opened or rendered it (seen), and the requests
\* that were in progress when it arrived (inFlightAtArrival).
NotSeen == [st |-> "unseen"]
Idle ==
    [route |-> "none", view |-> "none", pc |-> "idle", handle |-> NoHandle,
     outcome |-> Pending, resp |-> NoResp, seen |-> NotSeen, tries |-> 0,
     inFlightAtArrival |-> {}]

InFlight(r) == reqs[r].pc \notin {"idle", "done"}

Boot ==
    /\ reqs = [r \in Ids |-> Idle]
    /\ jinjaCache = NoTemplate

\* The server serves while the environment changes the files.
Init ==
    /\ Boot
    /\ disk \in [Paths -> LiveStates \cup TemplateStates]
    /\ \A p \in DataPaths : disk[p] \in LiveStates
    /\ disk[TemplatePath] \in TemplateStates

\* A static deployment: one data file in any state, the other in a common one.
InitStatic ==
    /\ Boot
    /\ disk \in [Paths -> AllStates \cup TemplateStates]
    /\ \A p \in DataPaths : disk[p] \in AllStates
    /\ \E p \in DataPaths : disk[p] \in CommonStates
    /\ disk[TemplatePath] \in TemplateStates

(***************************************************************************)
(* Actions                                                                 *)
(***************************************************************************)
\* A GET request arrives and is routed to its view.
Dispatch(r, u) ==
    /\ reqs[r].pc = "idle"
    /\ IF r = 1 THEN TRUE ELSE reqs[r - 1].pc # "idle"
    /\ reqs' = [reqs EXCEPT ![r] =
                  [Idle EXCEPT !.route = u, !.view = UrlMap[u], !.pc = "start",
                               !.inFlightAtArrival = {q \in Ids : InFlight(q)}]]
    /\ UNCHANGED <<disk, jinjaCache>>

\* home(): return render_template('index.html')
Home(r) ==
    /\ reqs[r].pc = "start" /\ reqs[r].view = "home"
    /\ LET o == HomeRender(disk, jinjaCache)
       IN  /\ jinjaCache' = o.cache
           /\ reqs' = [reqs EXCEPT ![r].outcome = o.outcome,
                                   ![r].seen = disk[RouteFile(reqs[r].route)],
                                   ![r].tries = @ + 1,
                                   ![r].pc = "returning"]
    /\ UNCHANGED disk

\* The shape of both data views: open, json.load, leave the with block.
ViewOpen(r, view, path, mode) ==
    /\ reqs[r].pc = "start" /\ reqs[r].view = view
    /\ LET o == BuiltinOpen(disk, path, mode)
       IN  /\ disk' = o.disk
           /\ reqs' = [reqs EXCEPT ![r].handle = o.handle,
                                   ![r].outcome = o.outcome,
                                   ![r].seen = disk[RouteFile(reqs[r].route)],
                                   ![r].tries = @ + 1,
                                   ![r].pc = IF o.outcome.t = "raise"
                                             THEN "returning" ELSE "opened"]
    /\ UNCHANGED jinjaCache

ViewLoad(r, view) ==
    /\ reqs[r].pc = "opened" /\ reqs[r].view = view
    /\ reqs' = [reqs EXCEPT ![r].outcome = JsonLoad(reqs[r].handle),
                            ![r].pc = "loaded"]
    /\ UNCHANGED <<disk, jinjaCache>>

ViewExit(r, view) ==
    /\ reqs[r].pc = "loaded" /\ reqs[r].view = view
    /\ reqs' = [reqs EXCEPT ![r].handle = WithExit(reqs[r].handle, reqs[r].outcome),
                            ![r].pc = "returning"]
    /\ UNCHANGED <<disk, jinjaCache>>

\* Slip: a missing file answered with an empty object.
PointsOpenOrEmpty(r) ==
    IF disk[PointsPath] = Missing
    THEN /\ reqs[r].pc = "start" /\ reqs[r].view = "points"
         /\ reqs' = [reqs EXCEPT ![r].outcome = Returned(PyDict(<<>>)),
                                 ![r].seen = disk[RouteFile(reqs[r].route)],
                                 ![r].tries = @ + 1,
                                 ![r].pc = "returning"]
         /\ UNCHANGED <<disk, jinjaCache>>
    ELSE ViewOpen(r, "points", PointsPath, PointsMode)

\* Slip: the parsed file kept in memory and served again.
PointsOpenMemo(r) ==
    IF \E q \in Ids : reqs[q].pc = "done" /\ reqs[q].view = "points"
                        /\ reqs[q].outcome.t = "return"
    THEN /\ reqs[r].pc = "start" /\ reqs[r].view = "points"
         /\ \E q \in Ids :
               /\ reqs[q].pc = "done" /\ reqs[q].view = "points"
               /\ reqs[q].outcome.t = "return"
               /\ reqs' = [reqs EXCEPT ![r].outcome = reqs[q].outcome,
                                       ![r].seen = disk[RouteFile(reqs[r].route)],
                                       ![r].tries = @ + 1,
                                       ![r].pc = "returning"]
         /\ UNCHANGED <<disk, jinjaCache>>
    ELSE ViewOpen(r, "points", PointsPath, PointsMode)

\* points(): with open('static/data/features.json', 'r') as points_file:
\*               return json.load(points_file)
PointsOpen(r) ==
    /\ reqs[r].view = "points"
    /\ ViewOpen(r, "points", PointsPath, PointsMode)
PointsLoad(r) ==
    /\ reqs[r].view = "points"
    /\ ViewLoad(r, "points")
PointsExit(r) ==
    /\ reqs[r].view = "points"
    /\ ViewExit(r, "points")

\* polygons(): with open('static/data/features_poly.json', 'r') as polygons_file:
\*                 return json.load(polygons_file)
PolygonsOpen(r) ==
    /\ reqs[r].view = "polygons"
    /\ ViewOpen(r, "polygons", PolygonsPath, PolygonsMode)
PolygonsLoad(r) ==
    /\ reqs[r].view = "polygons"
    /\ ViewLoad(r, "polygons")
PolygonsExit(r) ==
    /\ reqs[r].view = "polygons"
    /\ ViewExit(r, "polygons")

\* Flask turns the view's return value or exception into the response; the
\* installed Flask may or may not turn a list into JSON.
Respond(r) ==
    /\ reqs[r].pc = "returning"
    /\ \E listsAreJson \in BOOLEAN :
          reqs' = [reqs EXCEPT ![r].resp = Finalize(reqs[r].outcome, listsAreJson),
                               ![r].pc = "done"]
    /\ UNCHANGED <<disk, jinjaCache>>

\* The environment replaces a file (atomically) or deletes it.
EnvReplace(p, fs) ==
    /\ fs # Missing /\ disk[p] # fs
    /\ disk' = [disk EXCEPT ![p] = fs]
    /\ UNCHANGED <<reqs, jinjaCache>>

EnvDelete(p) ==
    /\ disk[p] # Missing
    /\ disk' = [disk EXCEPT ![p] = Missing]
    /\ UNCHANGED <<reqs, jinjaCache>>

HandlerStep ==
    \/ \E r \in Ids, u \in Routes : Dispatch(r, u)
    \/ \E r \in Ids : Home(r)
    \/ \E r \in Ids : PointsOpen(r)
    \/ \E r \in Ids : PointsLoad(r)
    \/ \E r \in Ids : PointsExit(r)
    \/ \E r \in Ids : PolygonsOpen(r)
    \/ \E r \in Ids : PolygonsLoad(r)
    \/ \E r \in Ids : PolygonsExit(r)
    \/ \E r \in Ids : Respond(r)

EnvStep ==
    \/ \E p \in DataPaths, fs \in LiveStates : EnvReplace(p, fs)
    \/ \E fs \in TemplateStates : EnvReplace(TemplatePath, fs)
    \/ \E p \in Paths : EnvDelete(p)

Next == HandlerStep \/ EnvStep
NextStatic == HandlerStep

Spec == Init /\ [][Next]_vars
SpecStatic == InitStatic /\ [][NextStatic]_vars

(***************************************************************************)
(* Properties                                                              *)
(***************************************************************************)
DataRoutes == {"/points", "/polygons"}
Done(r) == reqs[r].pc = "done"

\* The JSON value of a text, as a strict (RFC 8259) parser reads it.
JsonValue(text) == Decode(text, FALSE)
ValidJson(fs) == fs.st = "file" /\ JsonValue(fs.text).ok
\* Valid JSON whose top-level value is an object and whose numbers are all
\* within the range of a double.
ValidJsonObject(fs) ==
    /\ ValidJson(fs)
    /\ JsonValue(fs.text).val.kind = "dict"
    /\ \A i \in DOMAIN fs.text : fs.text[i] \notin HugeToks

\* Request r was answered 200 with a JSON body holding the value of the file
\* its route serves, as the file was when the handler opened it.
ServesFile(r) ==
    /\ reqs[r].resp.status = 200
    /\ reqs[r].resp.ctype = "application/json"
    /\ reqs[r].seen.st = "file"
    /\ JsonValue(reqs[r].resp.body).ok
    /\ JsonValue(reqs[r].seen.text).ok
    /\ JsonValue(reqs[r].resp.body).val = JsonValue(reqs[r].seen.text).val

\* Request i was answered before request j arrived.
Before(i, j) == i < j /\ Done(i) /\ i \notin reqs[j].inFlightAtArrival

\* C1 as stated: on a data route, a file holding valid JSON text of any
\* top-level kind is answered 200 with a JSON body of the same value.
C1_AnyValidJsonServed ==
    \A r \in Ids :
        (Done(r) /\ reqs[r].route \in DataRoutes /\ ValidJson(reqs[r].seen))
            => ServesFile(r)

\* C1 amended: on a data route, a readable file holding valid JSON text whose
\* top-level value is an object, with every number within the range of a
\* double, is answered 200 with a JSON content type and a body that decodes
\* to the same JSON value as the file.
C1_ValidObjectServed ==
    \A r \in Ids :
        (Done(r) /\ reqs[r].route \in DataRoutes /\ ValidJsonObject(reqs[r].seen))
            => ServesFile(r)

\* Both routes have served an object; the nested one came back equal in
\* value though not token for token.
C1_Witness ==
    \E r, q \in Ids :
        /\ Done(r) /\ reqs[r].route = "/points"
        /\ reqs[r].seen = File(ObjNested) /\ ServesFile(r)
        /\ reqs[r].resp.body # ObjNested
        /\ Done(q) /\ reqs[q].route = "/polygons"
        /\ reqs[q].seen = File(ObjB) /\ ServesFile(q)

\* C2: a /points request that finds its file missing is answered with a 5xx
\* status, never 200, and its body is not the body of any request answered
\* 200.
C2_MissingPointsIs5xx ==
    \A r \in Ids :
        (Done(r) /\ reqs[r].route = "/points" /\ reqs[r].seen = Missing)
            => /\ reqs[r].resp.status \in 500 .. 599
               /\ \A q \in Ids :
                     (Done(q) /\ reqs[q].resp.status = 200)
                         => reqs[r].resp.body # reqs[q].resp.body

\* /points served the file, the file was deleted, the next /points failed.
C2_Witness ==
    \E i, j \in Ids :
        /\ Before(i, j) /\ Done(j)
        /\ reqs[i].route = "/points" /\ reqs[j].route = "/points"
        /\ ServesFile(i)
        /\ reqs[j].seen = Missing /\ reqs[j].resp.status = 500

\* C3 as stated: a /points request whose file holds text that is not valid
\* JSON is answered with a 5xx status, never 200.
C3_InvalidJsonIs5xx ==
    \A r \in Ids :
        (Done(r) /\ reqs[r].route = "/points"
           /\ reqs[r].seen.st = "file" /\ ~ValidJson(reqs[r].seen))
            => reqs[r].resp.status \in 500 .. 599

\* C3, the part the code meets: a text json.load rejects is answered 500.
C3_RejectedTextIs500 ==
    \A r \in Ids :
        (Done(r) /\ reqs[r].route = "/points"
           /\ reqs[r].seen.st = "file" /\ ~Decode(reqs[r].seen.text, TRUE).ok)
            => reqs[r].resp.status = 500

\* C4: under every interleaving a data route answers with its own file: an
\* object file is served, and every 200 response carries the value of the
\* file of its own route.
C4_NoInterference ==
    \A r \in Ids :
        (Done(r) /\ reqs[r].route \in DataRoutes)
            => /\ ValidJsonObject(reqs[r].seen) => ServesFile(r)
               /\ reqs[r].resp.status = 200 => ServesFile(r)

\* /points and /polygons ran at the same time on files that differ, and each
\* was answered with its own.
C4_Witness ==
    \E i, j \in Ids :
        /\ i \in reqs[j].inFlightAtArrival
        /\ Done(i) /\ Done(j)
        /\ {reqs[i].route, reqs[j].route} = DataRoutes
        /\ ServesFile(i) /\ ServesFile(j)
        /\ JsonValue(reqs[i].resp.body).val # JsonValue(reqs[j].resp.body).val

\* C5: once a data view has returned or raised, and when its request has
\* been answered, no file handle of the request is open.
C5_HandleClosed ==
    \A r \in Ids :
        reqs[r].pc \in {"returning", "done"} => reqs[r].handle.h # "open"

\* A read failure and a parse failure, both answered, both handles closed.
C5_Witness ==
    \E r, q \in Ids :
        /\ Done(r) /\ reqs[r].outcome = Raised("UnicodeDecodeError")
        /\ reqs[r].handle = Closed
        /\ Done(q) /\ reqs[q].outcome = Raised("JSONDecodeError")
        /\ reqs[q].handle = Closed

\* The successful exit path.
C5_WitnessSuccess ==
    \E r \in Ids :
        Done(r) /\ reqs[r].outcome.t = "return" /\ reqs[r].handle = Closed

\* C6: a request to a data route that arrives after an earlier request to
\* the same route was answered serves the file as it is now; when the file
\* was replaced in between, its body differs from the earlier one.
C6_FreshRead ==
    \A i, j \in Ids :
        (/\ Before(i, j) /\ Done(j)
         /\ reqs[i].route \in DataRoutes /\ reqs[j].route = reqs[i].route
         /\ ValidJsonObject(reqs[j].seen))
            => /\ ServesFile(j)
               /\ (ServesFile(i) /\ JsonValue(reqs[i].seen.text).val
                                      # JsonValue(reqs[j].seen.text).val)
                     => JsonValue(reqs[j].resp.body).val
                            # JsonValue(reqs[i].resp.body).val

\* The file was replaced between two requests to one route; both were served.
C6_Witness ==
    \E i, j \in Ids :
        /\ Before(i, j) /\ Done(j)
        /\ reqs[i].route \in DataRoutes /\ reqs[j].route = reqs[i].route
        /\ ServesFile(i) /\ ServesFile(j)
        /\ reqs[i].seen = File(ObjA) /\ reqs[j].seen = File(ObjB)

\* C7: no step of any handler changes a file on disk.
C7_ReadOnly == [][HandlerStep => disk' = disk]_vars

\* A failed and a successful request have both been answered.
C7_Witness ==
    \E r, q \in Ids :
        /\ Done(r) /\ reqs[r].resp.status = 500
        /\ Done(q) /\ reqs[q].resp.status = 200

\* The response a route gives for a state of its file, whatever came before.
ExpectedResponse(u, fs) ==
    IF fs.st # "file" THEN Response(500, "text/html", ErrorPage)
    ELSE IF u = "/" THEN Response(200, "text/html", fs.text)
    ELSE IF ~Decode(fs.text, TRUE).ok THEN Response(500, "text/html", ErrorPage)
    ELSE MakeResponse(Decode(fs.text, TRUE).val, TRUE)

ErrorKind(r) ==
    \/ /\ reqs[r].route \in DataRoutes
       /\ reqs[r].seen \in {Missing, NoPerm, Undecodable}
    \/ /\ reqs[r].route \in DataRoutes
       /\ reqs[r].seen.st = "file" /\ ~ValidJson(reqs[r].seen)
    \/ /\ reqs[r].route = "/"
       /\ reqs[r].seen = Missing

\* C9 as stated: a request that meets one of the three error kinds is
\* answered with the framework's 500 page after exactly one attempt.
C9_ErrorKindsAre500 ==
    \A r \in Ids :
        (Done(r) /\ ErrorKind(r))
            => /\ reqs[r].resp = Response(500, "text/html", ErrorPage)
               /\ reqs[r].outcome.t = "raise"
               /\ reqs[r].tries = 1

\* C9 for the errors the code raises: every exception ends in the 500 page
\* after one attempt.
C9_RaisedIs500 ==
    \A r \in Ids :
        (Done(r) /\ reqs[r].outcome.t = "raise")
            => /\ reqs[r].resp = Response(500, "text/html", ErrorPage)
               /\ reqs[r].tries = 1

\* C10: with the template present, GET / is answered 200 with a non-empty
\* HTML body, in whatever state the data files are.
C10_HomeServed ==
    \A r \in Ids :
        (Done(r) /\ reqs[r].route = "/" /\ reqs[r].seen # Missing)
            => /\ reqs[r].resp.status = 200
               /\ reqs[r].resp.ctype = "text/html"
               /\ reqs[r].resp.body # <<>>
               /\ reqs[r].resp.body = reqs[r].seen.text

\* GET / was served while one data file was missing and the other invalid.
C10_Witness ==
    \E r \in Ids :
        /\ Done(r) /\ reqs[r].route = "/" /\ reqs[r].resp.status = 200
        /\ disk["static/data/features.json"] = Missing
        /\ disk["static/data/features_poly.json"] = File(Truncated)

====
